---- MODULE Spec2Model ----
(***************************************************************************)
(* Model of pages/api/subscribe.js: the welcome-discount issuance handler  *)
(* behind a Shopify App Proxy.  The commerce platform (customers, their    *)
(* welcome.code metafield, orders, discount codes) and the mail transport  *)
(* are the shared state; every request is one invocation of handler(),     *)
(* which is suspended at each await, so one action is one remote call      *)
(* together with the synchronous code that follows it.                     *)
(***************************************************************************)
EXTENDS Integers, Sequences, FiniteSets, TLC

VARIABLES
    customers,   \* platform: customer email -> value of metafield welcome.code
    orders,      \* platform: email -> fulfillment statuses of its orders
    discounts,   \* platform: the discount codes registered
    outbox,      \* mail transport: the <<to, code>> messages accepted
    mfWrites,    \* platform: log of the metafieldsSet mutations applied
    handler,     \* per invocation: the frame of handler(req, res)
    budget,      \* requests the environment may still issue
    overlap,     \* whether the environment issues requests concurrently
    inputs       \* the requests the environment may send

vars == <<customers, orders, discounts, outbox, mfWrites, handler, budget,
          overlap, inputs>>

(***************************************************************************)
(* Bounds of the model.                                                    *)
(***************************************************************************)
MaxRequests == 2     \* requests issued in one behaviour
NumCodes == 3        \* distinct values crypto.randomBytes(3) may produce
MaxLen == 6          \* longest req.body.email of the exhaustive input set

Reqs == {1, 2}       \* invocations that may be in flight together

MaxTries == 5        \* while (!ok && tries < 5)

NoCode == <<>>       \* no metafield value, existingCode null, no code in a response
NoEmail == <<>>      \* req.body.email missing: String(undefined || '')

(***************************************************************************)
(* Strings are sequences of one-character strings.                         *)
(***************************************************************************)
WhiteSpace == {" ", "\t"}

RECURSIVE TrimStart(_)
TrimStart(s) ==
    IF s # <<>> /\ Head(s) \in WhiteSpace THEN TrimStart(Tail(s)) ELSE s

RECURSIVE TrimEnd(_)
TrimEnd(s) ==
    IF s # <<>> /\ s[Len(s)] \in WhiteSpace
    THEN TrimEnd(SubSeq(s, 1, Len(s) - 1)) ELSE s

Trim(s) == TrimEnd(TrimStart(s))

LowerChar(c) ==
    CASE c = "A" -> "a"
      [] c = "B" -> "b"
      [] c = "C" -> "c"
      [] OTHER -> c

ToLowerCase(s) == [i \in 1..Len(s) |-> LowerChar(s[i])]

\* const email = String(req.body?.email || '').trim().toLowerCase();
NormalizeEmail(b) == ToLowerCase(Trim(b))

\* [^\s@]
EmailChar(c) == c \notin WhiteSpace /\ c # "@"

AllEmailChars(s, lo, hi) == \A k \in lo..hi : EmailChar(s[k])

\* /^[^\s@]+@[^\s@]+\.[^\s@]+$/.test(email)
EmailRegexNoDot(s) ==
    \E i \in 1..Len(s) :
        /\ s[i] = "@"
        /\ i > 1 /\ AllEmailChars(s, 1, i - 1)
        /\ i < Len(s) /\ AllEmailChars(s, i + 1, Len(s))

EmailRegex(s) ==
    \E i \in 1..Len(s) : \E j \in 1..Len(s) :
        /\ s[i] = "@" /\ s[j] = "."
        /\ i > 1 /\ AllEmailChars(s, 1, i - 1)
        /\ j > i + 1 /\ AllEmailChars(s, i + 1, j - 1)
        /\ j < Len(s) /\ AllEmailChars(s, j + 1, Len(s))

\* !(!email || !regex.test(email))
ValidEmail(email) == email # <<>> /\ EmailRegex(email)

Alphabet == {"a", "@", ".", " "}

RECURSIVE StringsUpTo(_)
StringsUpTo(n) ==
    IF n = 0 THEN {<<>>}
    ELSE LET shorter == StringsUpTo(n - 1)
         IN  shorter \cup {Append(s, c) : s \in shorter, c \in Alphabet}

(***************************************************************************)
(* verifyProxySignature.  A URL is its path and the sequence of its query  *)
(* parameters <<name, value>>.  A digest is the triple <<"hmac", key,      *)
(* base>>: two digests are equal exactly when key and base are.  A         *)
(* signature string is the bytes its leading hex digits decode to and      *)
(* whatever follows them.                                                  *)
(***************************************************************************)
Secret == "APP_PROXY_SIGNING_SECRET"

Pathname == "/api/subscribe"

Hmac(key, base) == <<"hmac", key, base>>

HexString(bytes) == [bytes |-> bytes, rest |-> ""]

NoBytes == <<>>

EmptyString == [bytes |-> NoBytes, rest |-> ""]

\* Buffer.from(s, 'hex'): decoding stops at the first non-hex character
BufferFromHex(s) == s.bytes

RECURSIVE WithoutParam(_, _)
WithoutParam(query, name) ==
    IF query = <<>> THEN <<>>
    ELSE IF Head(query)[1] = name THEN WithoutParam(Tail(query), name)
    ELSE <<Head(query)>> \o WithoutParam(Tail(query), name)

HasParam(query, name) == \E i \in 1..Len(query) : query[i][1] = name

\* url.searchParams.get(name): the value of the first parameter of that name
GetParam(query, name) ==
    query[CHOOSE i \in 1..Len(query) :
              /\ query[i][1] = name
              /\ \A k \in 1..(i - 1) : query[k][1] # name][2]

\* url.pathname + (searchParams.toString() ? '?' + searchParams.toString() : '')
BaseString(query) == <<Pathname, WithoutParam(query, "signature")>>

\* new URL(`https://${req.headers.host}${req.url}`) throws on a Host header
\* that is no host; the model keeps the header with the query, under this name
BadHost == <<"host", "[">>

UrlParses(query) == \A i \in 1..Len(query) : query[i][1] # BadHost[1]

\* the first half of the bytes of a digest
Half(digest) == <<"half", digest[2], digest[3]>>

IsDigest(bytes) == bytes # NoBytes /\ bytes[1] = "hmac"

\* crypto.timingSafeEqual(a, b), b a digest: a RangeError unless a has the
\* length of a digest
TimingSafeEqual(a, b) ==
    IF ~IsDigest(a) THEN "throw"
    ELSE IF a = b THEN "true" ELSE "false"

\* verifyProxySignature, lines 16-25: the body of its try
TrySignature(req) ==
    IF ~UrlParses(req.url) THEN "throw"
    ELSE IF ~HasParam(req.url, "signature") THEN "false"
    ELSE IF GetParam(req.url, "signature") = EmptyString THEN "false"
    ELSE TimingSafeEqual(
             BufferFromHex(GetParam(req.url, "signature")),
             BufferFromHex(HexString(Hmac(Secret, BaseString(req.url)))))

\* lines 15-28: try { ... } catch { return false }
verifyProxySignature(req) == TrySignature(req) = "true"

ShopS1 == <<"shop", "s1">>

ShopS2 == <<"shop", "s2">>

SignatureOf(query) == <<"signature", HexString(Hmac(Secret, BaseString(query)))>>

Signed == <<ShopS1, SignatureOf(<<ShopS1>>)>>      \* as the proxy forwards it

Unsigned == <<ShopS1>>                             \* no signature parameter

Tampered == <<ShopS2, SignatureOf(<<ShopS1>>)>>    \* changed after signing

Request(method, url, body) == [method |-> method, url |-> url, body |-> body]

\* signature strings that are not the hex digest: the digest followed by
\* characters that are no hex digits, no hex digit at all, half a digest,
\* the digest under another key
JunkTail(digest) == [bytes |-> digest, rest |-> "zz"]

NotHex == [bytes |-> NoBytes, rest |-> "zz"]

DigestOf(query) == Hmac(Secret, BaseString(query))

\* the URLs of the signature specification: the query <<shop=s1>> with each
\* of these as its signature parameter, with none, with two, and bad hosts
SignatureStrings ==
    { HexString(DigestOf(<<ShopS1>>)),
      JunkTail(DigestOf(<<ShopS1>>)),
      NotHex,
      EmptyString,
      HexString(Half(DigestOf(<<ShopS1>>))),
      HexString(Hmac("another secret", BaseString(<<ShopS1>>))) }

SignatureUrls ==
    {<<ShopS1, <<"signature", s>>>> : s \in SignatureStrings}
    \cup {<<<<"signature", s>>, ShopS1>> : s \in SignatureStrings}
    \cup {<<ShopS2, <<"signature", s>>>> : s \in SignatureStrings}
    \cup {<<<<"signature", s>>, <<"signature", t>>>> :
              s, t \in {HexString(DigestOf(<<>>)), NotHex}}
    \cup {Unsigned, <<BadHost>>, <<BadHost, SignatureOf(<<BadHost>>)>>}

(***************************************************************************)
(* The requests of the main specification: two spellings of one address,   *)
(* one under the digest and one under the digest with a tail, malformed    *)
(* addresses, bad signatures, another method.                              *)
(***************************************************************************)
\* the digest of the proxy followed by characters that are no hex digits
JunkSigned == <<ShopS1, <<"signature", JunkTail(DigestOf(<<ShopS1>>))>>>>

Requests ==
    { Request("POST", Signed, <<"a", "@", "b", ".", "c">>),
      Request("POST", JunkSigned, <<" ", "A", "@", "b", ".", "c">>),
      Request("POST", Signed, <<"a", "@", "b", "c">>),
      Request("POST", Signed, NoEmail),
      Request("POST", Unsigned, <<"a", "@", "b", ".", "c">>),
      Request("POST", Tampered, <<"a", "@", "b", ".", "c">>),
      Request("POST", Unsigned, <<"a", "@", "b", "c">>),
      Request("GET", Signed, <<"a", "@", "b", ".", "c">>),
      Request("GET", Unsigned, <<"a", "@", "b", ".", "c">>) }

\* the addresses the handler accepts among the requests rs
EmailsOf(rs) ==
    {NormalizeEmail(q.body) : q \in {x \in rs : ValidEmail(NormalizeEmail(x.body))}}

(***************************************************************************)
(* Discount codes.  makeCode() draws 3 random bytes; a code is its prefix  *)
(* and that value.  The platform registers a code under its own spelling   *)
(* of it, which for one of the candidates is not the spelling sent.        *)
(***************************************************************************)
\* makeCode: 'WELCOME-' + crypto.randomBytes(3).toString('hex').toUpperCase()
makeCode(random) == <<"WELCOME-", random>>

Candidates == {makeCode(n) : n \in 1..NumCodes}

\* the code string the platform registers, and reports, for a candidate
PlatformSpelling(c) == IF c[2] = NumCodes THEN <<"Welcome-", c[2]>> ELSE c

\* the discount registered before the behaviour starts
PreExisting == {makeCode(1)}

\* fulfillment statuses of the platform's orders: the two the query of line 46
\* names, and one it does not name (a partially fulfilled order)
Statuses == {"unfulfilled", "fulfilled", "partial"}

OrderSets == {{}} \cup {{s} : s \in Statuses}

(***************************************************************************)
(* Error messages are sequences of words.                                  *)
(***************************************************************************)
LowerWord(w) ==
    CASE w = "Code" -> "code"
      [] w = "HAS" -> "has"
      [] w = "ALREADY" -> "already"
      [] w = "BEEN" -> "been"
      [] w = "TAKEN" -> "taken"
      [] w = "Title" -> "title"
      [] w = "Throttled" -> "throttled"
      [] OTHER -> w

LowerMessage(m) == [i \in 1..Len(m) |-> LowerWord(m[i])]

Includes(m, part) ==
    \E i \in 0..(Len(m) - Len(part)) :
        \A k \in 1..Len(part) : m[i + k] = part[k]

AlreadyTaken == <<"has", "already", "been", "taken">>

\* String(e.message).toLowerCase().includes('has already been taken')
IsCollision(m) == Includes(LowerMessage(m), AlreadyTaken)

\* what the platform answers when the code is registered already
TakenMessages ==
    { <<"Code", "has", "already", "been", "taken">>,
      <<"Title", "is", "too", "long,", "Code", "HAS", "ALREADY", "BEEN", "TAKEN">> }

\* what it answers on any other failure (a transport error, another field)
OtherMessages ==
    { <<"Throttled">>,
      <<"Code", "has", "been", "taken", "already">> }

(***************************************************************************)
(* The frame of one invocation of handler(req, res).                       *)
(***************************************************************************)
NoReq == [method |-> "none", url |-> <<>>, body |-> NoEmail]

NoRes == [status |-> 0, ok |-> FALSE, message |-> "none"]

IdleFrame ==
    [pc |-> "idle", req |-> NoReq, email |-> <<>>, customerId |-> <<>>,
     existingCode |-> NoCode, candidate |-> NoCode, code |-> NoCode,
     ok |-> FALSE, tries |-> 0,
     res |-> NoRes, trace |-> <<>>]

InFlight(f) == f.pc \notin {"idle", "done"}

\* res.status(s).json({ ok, message }); res.json(...) alone answers 200
Respond(f, status, ok, message) ==
    [f EXCEPT !.pc = "done",
              !.res = [status |-> status, ok |-> ok, message |-> message]]

\* one remote call <<operation, argument, outcome>> made by the invocation
Called(f, op, arg, outcome) ==
    [f EXCEPT !.trace = Append(@, <<op, arg, outcome>>)]

\* catch (e) { ...; return res.status(500).json(...) }
CaughtWithoutResponse(f) == [f EXCEPT !.pc = "failed"]

Caught(f) == Respond(f, 500, FALSE, "Server error. Please try again later.")

\* handler, lines 137-143: the code before the first await
EnterMethodAs400(req) ==
    LET f == [IdleFrame EXCEPT !.req = req]
        email == NormalizeEmail(req.body)
    IN  IF req.method # "POST"
        THEN Respond(f, 400, FALSE, "Method not allowed")
        ELSE IF ~verifyProxySignature(req)
        THEN Respond(f, 401, FALSE, "Unauthorised")
        ELSE IF ~ValidEmail(email)
        THEN Respond(f, 400, FALSE, "Please enter a valid email.")
        ELSE [f EXCEPT !.pc = "lookup", !.email = email]

Enter(req) ==
    LET f == [IdleFrame EXCEPT !.req = req]
        email == NormalizeEmail(req.body)
    IN  IF req.method # "POST"
        THEN Respond(f, 405, FALSE, "Method not allowed")
        ELSE IF ~verifyProxySignature(req)
        THEN Respond(f, 401, FALSE, "Unauthorised")
        ELSE IF ~ValidEmail(email)
        THEN Respond(f, 400, FALSE, "Please enter a valid email.")
        ELSE [f EXCEPT !.pc = "lookup", !.email = email]

\* The environment issues a request; the handler runs up to its first await.
\* The invocation takes the first frame that is not in flight.
Receive(r) ==
    /\ budget > 0
    /\ ~InFlight(handler[r])
    /\ \A q \in Reqs : q < r => InFlight(handler[q])
    /\ overlap \/ \A q \in Reqs : ~InFlight(handler[q])
    /\ \E req \in inputs : handler' = [handler EXCEPT ![r] = Enter(req)]
    /\ budget' = budget - 1
    /\ UNCHANGED <<customers, orders, discounts, outbox, mfWrites, overlap, inputs>>

\* line 89: edge.node.metafield?.value || null
ExistingCodeIgnored(value) == NoCode

ExistingCode(value) == IF value # <<>> THEN value ELSE NoCode

\* handler line 147: if (existingCode)
AfterLookupNoShortCut(f) == [f EXCEPT !.pc = "orders"]

AfterLookup(f) ==
    [f EXCEPT !.pc = IF f.existingCode # NoCode THEN "resend" ELSE "orders"]

\* getCustomerAndExistingCode, lines 82-89, and handler line 147
Lookup(r) ==
    LET f == handler[r] IN
    /\ f.pc = "lookup"
    /\ \/ handler' = [handler EXCEPT ![r] =
               Caught(Called(f, "customers", f.email, "error"))]
       \/ /\ f.email \in DOMAIN customers
          /\ handler' = [handler EXCEPT ![r] =
                 AfterLookup([Called(f, "customers", f.email, "ok") EXCEPT
                                  !.customerId = f.email,
                                  !.existingCode = ExistingCode(customers[f.email])])]
       \/ /\ f.email \notin DOMAIN customers
          /\ handler' = [handler EXCEPT ![r] =
                 [Called(f, "customers", f.email, "ok") EXCEPT !.pc = "create"]]
    /\ UNCHANGED <<customers, orders, discounts, outbox, mfWrites, budget,
                   overlap, inputs>>

\* getCustomerAndExistingCode, lines 91-98: customerCreate
CreateCustomer(r) ==
    LET f == handler[r] IN
    /\ f.pc = "create"
    /\ \/ /\ handler' = [handler EXCEPT ![r] =
                 Caught(Called(f, "customerCreate", f.email, "error"))]
          /\ UNCHANGED customers
       \/ /\ f.email \notin DOMAIN customers
          /\ customers' = [e \in DOMAIN customers \cup {f.email} |->
                             IF e = f.email THEN NoCode ELSE customers[e]]
          /\ handler' = [handler EXCEPT ![r] =
                 AfterLookup([Called(f, "customerCreate", f.email, "ok") EXCEPT
                                  !.customerId = f.email,
                                  !.existingCode = NoCode])]
    /\ UNCHANGED <<orders, discounts, outbox, mfWrites, budget, overlap, inputs>>

\* sendCodeEmail at line 148 and the answer at line 149
Resend(r) ==
    LET f == handler[r] IN
    /\ f.pc = "resend"
    /\ \/ /\ handler' = [handler EXCEPT ![r] =
                 Caught(Called(f, "sendMail", f.existingCode, "error"))]
          /\ UNCHANGED outbox
       \/ /\ outbox' = outbox \cup {<<f.email, f.existingCode>>}
          /\ handler' = [handler EXCEPT ![r] =
                 Respond(Called(f, "sendMail", f.existingCode, "ok"), 200, TRUE,
                         "Code already issued; re-sent to your email.")]
    /\ UNCHANGED <<customers, orders, discounts, mfWrites, budget, overlap, inputs>>

\* the orders the query of line 46 selects:
\* email:X AND (fulfillment_status:unfulfilled OR fulfillment_status:fulfilled)
MatchingOrders(email) == orders[email] \cap {"unfulfilled", "fulfilled"}

\* emailHasAnyOrders: data.orders.edges.length > 0
emailHasAnyOrders(email) == MatchingOrders(email) # {}

\* handler lines 159 and 169: the loop test, and the throw after the loop
MintLoopOneMore(f) ==
    IF ~f.ok /\ f.tries <= MaxTries THEN [f EXCEPT !.pc = "mint"]
    ELSE IF ~f.ok THEN Caught(f)
    ELSE [f EXCEPT !.pc = "persist"]

MintLoopSkipsPersist(f) ==
    IF ~f.ok /\ f.tries < MaxTries THEN [f EXCEPT !.pc = "mint"]
    ELSE IF ~f.ok THEN Caught(f)
    ELSE [f EXCEPT !.pc = "notify"]

MintLoop(f) ==
    IF ~f.ok /\ f.tries < MaxTries THEN [f EXCEPT !.pc = "mint"]
    ELSE IF ~f.ok THEN Caught(f)
    ELSE [f EXCEPT !.pc = "persist"]

\* handler lines 153-158
CheckOrdersIgnored(r) ==
    LET f == handler[r] IN
    /\ f.pc = "orders"
    /\ \/ handler' = [handler EXCEPT ![r] =
               Caught(Called(f, "orders", f.email, "error"))]
       \/ handler' = [handler EXCEPT ![r] =
               MintLoop([Called(f, "orders", f.email, "ok") EXCEPT
                             !.ok = FALSE, !.tries = 0])]
    /\ UNCHANGED <<customers, orders, discounts, outbox, mfWrites, budget,
                   overlap, inputs>>

CheckOrders(r) ==
    LET f == handler[r] IN
    /\ f.pc = "orders"
    /\ \/ handler' = [handler EXCEPT ![r] =
               Caught(Called(f, "orders", f.email, "error"))]
       \/ /\ emailHasAnyOrders(f.email)
          /\ handler' = [handler EXCEPT ![r] =
                 Respond(Called(f, "orders", f.email, "ok"), 409, FALSE,
                         "Coupon codes are for first purchase only.")]
       \/ /\ ~emailHasAnyOrders(f.email)
          /\ handler' = [handler EXCEPT ![r] =
                 MintLoop([Called(f, "orders", f.email, "ok") EXCEPT
                               !.ok = FALSE, !.tries = 0])]
    /\ UNCHANGED <<customers, orders, discounts, outbox, mfWrites, budget,
                   overlap, inputs>>

\* the outcome of a refused discountCodeBasicCreate, as the platform means it
Refusal(m) == IF m \in TakenMessages THEN "taken" ELSE "error"

\* the platform refuses a code that is registered already
Registered(c) == PlatformSpelling(c) \in discounts

\* handler lines 165-167: a collision is swallowed, anything else is rethrown.
\* The candidate of a failed attempt is never read again (line 162 overwrites
\* it, line 169 throws): the frame forgets it.
CaughtInLoop(f, m) ==
    [Called(f, "discountCreate", NoCode, Refusal(m)) EXCEPT
         !.candidate = NoCode, !.code = NoCode]

OnCreateErrorRetryAll(f, m) == MintLoop(CaughtInLoop(f, m))

OnCreateError(f, m) ==
    IF IsCollision(m) THEN MintLoop(CaughtInLoop(f, m))
    ELSE Caught(CaughtInLoop(f, m))

\* createOneTimeTenPercent line 78: the code of the response, else the candidate
FinalCodeCandidate(candidate, returned) == candidate

FinalCodeUnlessCandidate(candidate, returned) ==
    IF candidate # NoCode THEN candidate ELSE returned

FinalCode(candidate, returned) ==
    IF returned # NoCode THEN returned ELSE candidate

\* handler lines 160-167: one pass of the loop, one createOneTimeTenPercent
Mint(r) ==
    LET f == handler[r] IN
    /\ f.pc = "mint"
    /\ \E candidate \in Candidates :
         LET g == [f EXCEPT !.tries = @ + 1, !.candidate = candidate,
                            !.code = candidate]
         IN
         \/ \E m \in OtherMessages :
               /\ handler' = [handler EXCEPT ![r] = OnCreateError(g, m)]
               /\ UNCHANGED discounts
         \/ \E m \in TakenMessages :
               /\ Registered(candidate)
               /\ handler' = [handler EXCEPT ![r] = OnCreateError(g, m)]
               /\ UNCHANGED discounts
         \/ \E returned \in {PlatformSpelling(candidate), NoCode} :
               /\ ~Registered(candidate)
               /\ returned = NoCode => PlatformSpelling(candidate) = candidate
               /\ discounts' = discounts \cup {PlatformSpelling(candidate)}
               /\ handler' = [handler EXCEPT ![r] =
                      MintLoop([Called(g, "discountCreate",
                                       PlatformSpelling(candidate), "ok") EXCEPT
                                    !.code = FinalCode(candidate, returned),
                                    !.ok = TRUE])]
    /\ UNCHANGED <<customers, orders, outbox, mfWrites, budget, overlap, inputs>>

\* setCustomerCodeMetafield at handler line 171
PersistKeepsFirst(r) ==
    LET f == handler[r] IN
    /\ f.pc = "persist"
    /\ \/ /\ handler' = [handler EXCEPT ![r] =
                 Caught(Called(f, "metafieldsSet", f.code, "error"))]
          /\ UNCHANGED <<customers, mfWrites>>
       \/ /\ customers' = IF customers[f.customerId] # NoCode THEN customers
                          ELSE [customers EXCEPT ![f.customerId] = f.code]
          /\ mfWrites' = Append(mfWrites, <<f.customerId, f.code>>)
          /\ handler' = [handler EXCEPT ![r] =
                 [Called(f, "metafieldsSet", f.code, "ok") EXCEPT !.pc = "notify"]]
    /\ UNCHANGED <<orders, discounts, outbox, budget, overlap, inputs>>

PersistFailsAfterWrite(r) ==
    LET f == handler[r] IN
    /\ f.pc = "persist"
    /\ customers' = [customers EXCEPT ![f.customerId] = f.code]
    /\ mfWrites' = Append(mfWrites, <<f.customerId, f.code>>)
    /\ \/ handler' = [handler EXCEPT ![r] =
               Caught(Called(f, "metafieldsSet", f.code, "error"))]
       \/ handler' = [handler EXCEPT ![r] =
               [Called(f, "metafieldsSet", f.code, "ok") EXCEPT !.pc = "notify"]]
    /\ UNCHANGED <<orders, discounts, outbox, budget, overlap, inputs>>

Persist(r) ==
    LET f == handler[r] IN
    /\ f.pc = "persist"
    /\ \/ /\ handler' = [handler EXCEPT ![r] =
                 Caught(Called(f, "metafieldsSet", f.code, "error"))]
          /\ UNCHANGED <<customers, mfWrites>>
       \/ /\ customers' = [customers EXCEPT ![f.customerId] = f.code]
          /\ mfWrites' = Append(mfWrites, <<f.customerId, f.code>>)
          /\ handler' = [handler EXCEPT ![r] =
                 [Called(f, "metafieldsSet", f.code, "ok") EXCEPT !.pc = "notify"]]
    /\ UNCHANGED <<orders, discounts, outbox, budget, overlap, inputs>>

\* sendCodeEmail at handler line 172 and the answer at line 174
NotifyRollsBack(r) ==
    LET f == handler[r] IN
    /\ f.pc = "notify"
    /\ \/ /\ handler' = [handler EXCEPT ![r] =
                 Caught(Called(f, "sendMail", f.code, "error"))]
          /\ customers' = [customers EXCEPT ![f.customerId] = NoCode]
          /\ UNCHANGED outbox
       \/ /\ outbox' = outbox \cup {<<f.email, f.code>>}
          /\ handler' = [handler EXCEPT ![r] =
                 Respond(Called(f, "sendMail", f.code, "ok"), 200, TRUE,
                         "Your 10% code has been emailed.")]
          /\ UNCHANGED customers
    /\ UNCHANGED <<orders, discounts, mfWrites, budget, overlap, inputs>>

Notify(r) ==
    LET f == handler[r] IN
    /\ f.pc = "notify"
    /\ \/ /\ handler' = [handler EXCEPT ![r] =
                 Caught(Called(f, "sendMail", f.code, "error"))]
          /\ UNCHANGED outbox
       \/ /\ outbox' = outbox \cup {<<f.email, f.code>>}
          /\ handler' = [handler EXCEPT ![r] =
                 Respond(Called(f, "sendMail", f.code, "ok"), 200, TRUE,
                         "Your 10% code has been emailed.")]
    /\ UNCHANGED <<customers, orders, discounts, mfWrites, budget, overlap, inputs>>

(***************************************************************************)
(* Specifications.  The platform starts with any set of customers, each    *)
(* with no welcome code or with the one issued to it earlier, and with any *)
(* orders.                                                                 *)
(***************************************************************************)
InitPlatform ==
    /\ \E known \in SUBSET EmailsOf(inputs) :
          customers \in [known -> {NoCode} \cup PreExisting]
    /\ orders \in [EmailsOf(inputs) -> OrderSets]
    /\ discounts = PreExisting
    /\ outbox = {}
    /\ mfWrites = <<>>
    /\ handler = [r \in Reqs |-> IdleFrame]

\* requests of the proxy, arriving at any time or one after the other
Init ==
    /\ inputs = Requests
    /\ overlap \in BOOLEAN
    /\ budget = MaxRequests
    /\ InitPlatform

\* a request and one retry of it, the body any string of at most MaxLen characters
InitEmail ==
    /\ \E b \in StringsUpTo(MaxLen) : inputs = {Request("POST", Signed, b)}
    /\ overlap = FALSE
    /\ budget = 2
    /\ InitPlatform

\* a request and one retry of it, the URL any of SignatureUrls
InitSignature ==
    /\ \E url \in SignatureUrls :
          inputs = {Request("POST", url, <<"a", "@", "b", ".", "c">>)}
    /\ overlap = FALSE
    /\ budget = 2
    /\ InitPlatform

\* requests of one address and requests refused at once, arriving at any time
InitFair ==
    /\ inputs = { Request("POST", Signed, <<"a", "@", "b", ".", "c">>),
                  Request("POST", Unsigned, <<"a", "@", "b", ".", "c">>) }
    /\ overlap \in BOOLEAN
    /\ budget = MaxRequests
    /\ InitPlatform

Next ==
    \E r \in Reqs :
        \/ Receive(r)
        \/ Lookup(r)
        \/ CreateCustomer(r)
        \/ Resend(r)
        \/ CheckOrders(r)
        \/ Mint(r)
        \/ Persist(r)
        \/ Notify(r)

Spec == Init /\ [][Next]_vars

SpecEmail == InitEmail /\ [][Next]_vars

SpecSignature == InitSignature /\ [][Next]_vars

\* the await at which invocation r is suspended returns or throws
Resume(r) ==
    \/ Lookup(r)
    \/ CreateCustomer(r)
    \/ Resend(r)
    \/ CheckOrders(r)
    \/ Mint(r)
    \/ Persist(r)
    \/ Notify(r)

\* every remote call eventually returns or fails
SpecFair == InitFair /\ [][Next]_vars /\ \A r \in Reqs : WF_vars(Resume(r))

(***************************************************************************)
(* Vocabulary of the properties.                                           *)
(***************************************************************************)
Done(f) == f.pc = "done"

\* the positions of the trace where the invocation called op
CallsOf(f, op) == {i \in 1..Len(f.trace) : f.trace[i][1] = op}

\* those of them that succeeded
OkCallsOf(f, op) == {i \in CallsOf(f, op) : f.trace[i][3] = "ok"}

Mutations == {"customerCreate", "discountCreate", "metafieldsSet"}

Answered(f, status, ok) == Done(f) /\ f.res.status = status /\ f.res.ok = ok

\* the invocation found a stored code at its Lookup
FoundCode(f) == f.existingCode # NoCode

\* the stored code of every customer is left as it is by the step
StoredCodesKept ==
    \A e \in DOMAIN customers : customers[e] # NoCode => customers'[e] = customers[e]

(***************************************************************************)
(* C1.  As claimed: once a code is stored on a customer, no request, in    *)
(* any interleaving, stores a different code on that customer.             *)
(***************************************************************************)
C1_StoredCodeNeverReplaced == [][StoredCodesKept]_vars

(***************************************************************************)
(* C1, amended.  When the requests are handled one after the other (no two *)
(* invocations in flight together), once a code is stored on a customer no *)
(* request stores a different code on that customer.                       *)
(***************************************************************************)
C1_StoredCodeKeptWithoutOverlap == [][~overlap => StoredCodesKept]_vars

\* one request stored a code, and the next one, alone, found and re-sent it
C1_Witness ==
    /\ ~overlap
    /\ Len(mfWrites) = 1
    /\ \E r \in Reqs :
          /\ Answered(handler[r], 200, TRUE)
          /\ handler[r].existingCode = mfWrites[1][2]

(***************************************************************************)
(* C2.  As claimed: every verified, well-formed POST request for an email  *)
(* whose customer holds a stored code C sends a mail carrying C, answers   *)
(* 200 {ok:true}, looks up no order, creates no discount, writes no        *)
(* issuance record, and C is still the stored code afterwards.             *)
(***************************************************************************)
C2_ResendAlwaysAnswers200 ==
    \A r \in Reqs :
        LET f == handler[r] IN
        (Done(f) /\ FoundCode(f)) =>
            /\ Answered(f, 200, TRUE)
            /\ f.trace = << <<"customers", f.email, "ok">>,
                            <<"sendMail", f.existingCode, "ok">> >>
            /\ <<f.email, f.existingCode>> \in outbox
            /\ customers[f.email] = f.existingCode

(***************************************************************************)
(* C2, amended.  A request whose Lookup reads a stored code C makes one    *)
(* more call only, the mail submission of C: no order lookup, no discount  *)
(* creation, no write of the issuance record.  It answers 200 {ok:true}    *)
(* when the transport accepts the mail and 500 {ok:false} when the         *)
(* transport fails.  When no other request is in flight with it, the       *)
(* stored code is still C afterwards.                                      *)
(***************************************************************************)
C2_Resend ==
    \A r \in Reqs :
        LET f == handler[r] IN
        FoundCode(f) =>
            /\ f.pc \in {"resend", "done"}
            /\ f.trace[1] = <<"customers", f.email, "ok">>
            /\ f.pc = "resend" => Len(f.trace) = 1
            /\ Done(f) =>
                  /\ Len(f.trace) = 2
                  /\ f.trace[2][1] = "sendMail" /\ f.trace[2][2] = f.existingCode
                  /\ \/ /\ f.trace[2][3] = "ok"
                        /\ Answered(f, 200, TRUE)
                        /\ <<f.email, f.existingCode>> \in outbox
                     \/ /\ f.trace[2][3] = "error"
                        /\ Answered(f, 500, FALSE)
            /\ ~overlap => customers[f.email] = f.existingCode

\* the same stored code re-sent by two requests, for an email that has an order
C2_Witness ==
    /\ \A r \in Reqs :
          /\ Answered(handler[r], 200, TRUE)
          /\ FoundCode(handler[r])
          /\ orders[handler[r].email] # {}
    /\ handler[1].existingCode = handler[2].existingCode
    /\ handler[1].email = handler[2].email

(***************************************************************************)
(* C3.  As claimed: a request that finds no stored code for an email that  *)
(* has an order, whatever the order's fulfillment status, answers 409      *)
(* {ok:false}, creates no discount and sends no mail.                      *)
(***************************************************************************)
C3_AnyOrderBlocksIssuance ==
    \A r \in Reqs :
        LET f == handler[r] IN
        ( /\ OkCallsOf(f, "orders") # {}
          /\ ~FoundCode(f)
          /\ orders[f.email] # {} ) =>
            /\ Answered(f, 409, FALSE)
            /\ CallsOf(f, "discountCreate") = {}
            /\ CallsOf(f, "sendMail") = {}

(***************************************************************************)
(* C4.  As claimed: a request answered 409 has performed no mutation on    *)
(* the platform: it created no customer, no discount, wrote no record.     *)
(***************************************************************************)
C4_ConflictMutatesNothing ==
    \A r \in Reqs :
        LET f == handler[r] IN
        Answered(f, 409, FALSE) =>
            \A op \in Mutations : OkCallsOf(f, op) = {}

(***************************************************************************)
(* C5.  createDiscountCode is called again, with a new candidate, exactly  *)
(* when the attempt before it failed with a message that says the value    *)
(* has already been taken (and the budget of C6 is not spent); after any   *)
(* other failure no attempt follows, the request is answered 500, no       *)
(* issuance record is written and no mail is sent.                         *)
(***************************************************************************)
C5_RetryExactlyOnCollision ==
    \A r \in Reqs :
        LET f == handler[r]
            n == Len(f.trace)
        IN  /\ \A i \in CallsOf(f, "discountCreate") :
                  \/ i - 1 \in CallsOf(f, "orders")
                  \/ /\ i - 1 \in CallsOf(f, "discountCreate")
                     /\ f.trace[i - 1][3] = "taken"
            /\ (f.pc = "mint" /\ f.tries > 0) =>
                  f.trace[n] = <<"discountCreate", NoCode, "taken">>
            /\ (n > 0 /\ f.trace[n] = <<"discountCreate", NoCode, "taken">>) =>
                  \/ f.pc = "mint"
                  \/ f.tries = MaxTries /\ Answered(f, 500, FALSE)
            /\ \A i \in CallsOf(f, "discountCreate") :
                  f.trace[i][3] = "error" =>
                      /\ i = n
                      /\ Answered(f, 500, FALSE)
                      /\ ~f.ok

\* a failure that is no collision ended the request after one collision
C5_Witness ==
    \E r \in Reqs :
        LET f == handler[r] IN
        /\ Answered(f, 500, FALSE)
        /\ f.tries = 2
        /\ f.trace[Len(f.trace) - 1] = <<"discountCreate", NoCode, "taken">>
        /\ f.trace[Len(f.trace)] = <<"discountCreate", NoCode, "error">>

(***************************************************************************)
(* C6.  One request calls createDiscountCode at most 5 times.  When all 5  *)
(* attempts collide the request is answered 500 after exactly 5 attempts,  *)
(* with no issuance record written and no mail sent.  When an attempt      *)
(* succeeds it is the last one and the workflow goes on to Persist.        *)
(***************************************************************************)
C6_AtMostFiveAttempts ==
    \A r \in Reqs :
        LET f == handler[r]
            attempts == CallsOf(f, "discountCreate")
            collisions == {i \in attempts : f.trace[i][3] = "taken"}
        IN  /\ Cardinality(attempts) <= MaxTries
            /\ f.pc = "mint" => Cardinality(attempts) < MaxTries
            /\ (Done(f) /\ attempts # {} /\ collisions = attempts) =>
                  /\ Cardinality(attempts) = MaxTries
                  /\ Answered(f, 500, FALSE)
                  /\ CallsOf(f, "metafieldsSet") = {}
                  /\ CallsOf(f, "sendMail") = {}
            /\ \A i \in OkCallsOf(f, "discountCreate") :
                  /\ \A k \in attempts : k <= i
                  /\ f.pc \in {"persist", "notify", "done"}
                  /\ f.pc = "persist" => i = Len(f.trace)
                  /\ f.pc # "persist" => i + 1 \in CallsOf(f, "metafieldsSet")

\* five collisions in a row
C6_Witness ==
    \E r \in Reqs :
        LET f == handler[r] IN
        /\ Answered(f, 500, FALSE)
        /\ Cardinality(CallsOf(f, "discountCreate")) = MaxTries
        /\ OkCallsOf(f, "discountCreate") = {}
        /\ f.trace[Len(f.trace)][3] = "taken"

\* the fifth attempt succeeded and the workflow went on
C6_WitnessFifth ==
    \E r \in Reqs :
        LET f == handler[r] IN
        /\ Answered(f, 200, TRUE)
        /\ Cardinality(CallsOf(f, "discountCreate")) = MaxTries
        /\ OkCallsOf(f, "discountCreate") # {}

(***************************************************************************)
(* C7.  As claimed: a request for a fresh email (no order, no stored code) *)
(* whose remote calls all succeed is answered 200 {ok:true}, and then the  *)
(* customer exists, the request created exactly one discount code, that    *)
(* code is the customer's stored issuance record, and exactly one mail     *)
(* carrying that code went to the email.                                   *)
(***************************************************************************)
AllCallsOk(f) == f.trace # <<>> /\ \A i \in 1..Len(f.trace) : f.trace[i][3] = "ok"

FreshIssuance(f) ==
    /\ Done(f) /\ AllCallsOk(f)
    /\ ~FoundCode(f)
    /\ orders[f.email] = {}

\* what C7 says of the request apart from the stored record
IssuedOnce(f) ==
    /\ Answered(f, 200, TRUE)
    /\ f.email \in DOMAIN customers
    /\ Cardinality(CallsOf(f, "customerCreate")) <= 1
    /\ Cardinality(CallsOf(f, "discountCreate")) = 1
    /\ \A i \in CallsOf(f, "discountCreate") : f.trace[i][2] = f.code
    /\ f.code \in discounts
    /\ Cardinality(CallsOf(f, "metafieldsSet")) = 1
    /\ \A i \in CallsOf(f, "metafieldsSet") : f.trace[i][2] = f.code
    /\ Cardinality(CallsOf(f, "sendMail")) = 1
    /\ \A i \in CallsOf(f, "sendMail") : f.trace[i][2] = f.code
    /\ <<f.email, f.code>> \in outbox

C7_IssuedCodeIsStored ==
    \A r \in Reqs :
        LET f == handler[r] IN
        FreshIssuance(f) => (IssuedOnce(f) /\ customers[f.email] = f.code)

(***************************************************************************)
(* C7, amended.  The same, except for the stored record: the request wrote *)
(* its code into the customer's issuance record, and that code is the      *)
(* stored record unless another request, in flight together with this one, *)
(* wrote its own code for the same customer afterwards.                    *)
(***************************************************************************)
C7_IssuedCodeWasStored ==
    \A r \in Reqs :
        LET f == handler[r] IN
        FreshIssuance(f) =>
            /\ IssuedOnce(f)
            /\ \E k \in 1..Len(mfWrites) :
                  /\ mfWrites[k] = <<f.customerId, f.code>>
                  /\ customers[f.email] # f.code =>
                        /\ overlap
                        /\ \E j \in (k + 1)..Len(mfWrites) :
                              mfWrites[j] = <<f.customerId, customers[f.email]>>

\* issuance to an email that had no customer record, the code respelled
C7_Witness ==
    \E r \in Reqs :
        LET f == handler[r] IN
        /\ FreshIssuance(f)
        /\ OkCallsOf(f, "customerCreate") # {}
        /\ f.code # f.candidate
        /\ customers[f.email] = f.code

(***************************************************************************)
(* C8.  As claimed: a request whose proxy signature is bad (not the hex    *)
(* HMAC of the rest of its query) or missing is answered 401 {ok:false}    *)
(* and makes no remote call, whatever its body.                            *)
(***************************************************************************)
\* the signature parameter is the hex HMAC of the rest of the query
SignatureIsGood(req) ==
    \E i \in 1..Len(req.url) :
        /\ req.url[i][1] = "signature"
        /\ req.url[i][2] = HexString(Hmac(Secret,
                               <<Pathname, WithoutParam(req.url, "signature")>>))

C8_BadSignature401 ==
    \A r \in Reqs :
        LET f == handler[r] IN
        (f.pc # "idle" /\ ~SignatureIsGood(f.req)) =>
            (Answered(f, 401, FALSE) /\ f.trace = <<>>)

(***************************************************************************)
(* C9.  A verified POST request whose email is malformed (empty after      *)
(* trimming, no '@', no dot in the domain, or whitespace in it) is         *)
(* answered 400 before any remote call.                                    *)
(***************************************************************************)
Malformed(body) ==
    LET email == Trim(body)
        ats == {i \in 1..Len(email) : email[i] = "@"}
    IN  \/ email = <<>>
        \/ ats = {}
        \/ \A i \in ats : \A j \in (i + 1)..Len(email) : email[j] # "."
        \/ \E i \in 1..Len(email) : email[i] \in WhiteSpace

C9_Malformed400 ==
    \A r \in Reqs :
        LET f == handler[r] IN
        (f.pc # "idle" /\ f.req.method = "POST" /\ SignatureIsGood(f.req)
            /\ Malformed(f.req.body)) =>
            (Answered(f, 400, FALSE) /\ f.trace = <<>>)

\* an address with everything but a dot in its domain, and a blank inside
C9_Witness ==
    \E r \in Reqs :
        /\ handler[r].req.body = <<"a", " ", "@", "a", "a">>
        /\ Answered(handler[r], 400, FALSE)

(***************************************************************************)
(* C10.  As claimed: a request that is not a POST is answered 400          *)
(* {ok:false}, and every response has a status among 200, 400, 401, 409    *)
(* and 500.                                                                *)
(***************************************************************************)
C10_NonPost400 ==
    \A r \in Reqs :
        LET f == handler[r] IN
        Done(f) =>
            /\ f.req.method # "POST" => Answered(f, 400, FALSE)
            /\ f.res.status \in {200, 400, 401, 409, 500}

(***************************************************************************)
(* C10, amended.  A request that is not a POST is answered 405 {ok:false}, *)
(* and every response has a status among 200, 400, 401, 405, 409 and 500.  *)
(***************************************************************************)
C10_NonPost405 ==
    \A r \in Reqs :
        LET f == handler[r] IN
        Done(f) =>
            /\ f.req.method # "POST" => Answered(f, 405, FALSE)
            /\ f.res.status \in {200, 400, 401, 405, 409, 500}

\* a signed GET with a well-formed email
C10_Witness ==
    \E r \in Reqs :
        /\ handler[r].req = Request("GET", Signed, <<"a", "@", "b", ".", "c">>)
        /\ Answered(handler[r], 405, FALSE)

(***************************************************************************)
(* C11.  When the issuance record was written and the mail submission that *)
(* follows fails, the request is answered 500 and the failing step changes *)
(* neither the stored codes nor the registered discounts (no rollback).    *)
(* When requests are handled one after the other, the code stays the       *)
(* customer's stored code, and a later request for the same email reads    *)
(* that code at its Lookup, looks up no order, creates no discount, and    *)
(* submits one mail carrying exactly that code; when the transport accepts *)
(* it the code is delivered and the request is answered 200.               *)
(***************************************************************************)
\* the invocation wrote the issuance record and its mail submission failed
MailFailedAfterStore(f) ==
    LET n == Len(f.trace) IN
    /\ n >= 2
    /\ f.trace[n - 1] = <<"metafieldsSet", f.code, "ok">>
    /\ f.trace[n] = <<"sendMail", f.code, "error">>

\* an invocation that looked the customer up after another one wrote its record
RetryAfterStore(f) ==
    /\ ~overlap
    /\ mfWrites # <<>>
    /\ f.email = mfWrites[Len(mfWrites)][1]
    /\ OkCallsOf(f, "customers") # {}
    /\ CallsOf(f, "metafieldsSet") = {}

\* the step of r in which its mail submission after the write fails
NotifyFails(r) ==
    /\ handler[r].pc = "notify"
    /\ handler'[r].pc = "done"
    /\ MailFailedAfterStore(handler'[r])

NoRollback ==
    \A r \in Reqs :
        NotifyFails(r) =>
            /\ customers' = customers
            /\ discounts' = discounts
            /\ handler'[r].code \in discounts'

StoredCodeIsResent ==
    \A r \in Reqs :
        LET f == handler[r]
            stored == mfWrites[Len(mfWrites)][2]
        IN  /\ MailFailedAfterStore(f) =>
                  /\ Answered(f, 500, FALSE)
                  /\ f.code \in discounts
                  /\ ~overlap => customers[f.email] = f.code
            /\ RetryAfterStore(f) =>
                  /\ f.existingCode = stored
                  /\ customers[f.email] = stored
                  /\ stored \in discounts
                  /\ CallsOf(f, "orders") = {}
                  /\ CallsOf(f, "discountCreate") = {}
                  /\ \A i \in CallsOf(f, "sendMail") : f.trace[i][2] = stored
                  /\ Done(f) => Cardinality(CallsOf(f, "sendMail")) = 1
                  /\ (Done(f) /\ OkCallsOf(f, "sendMail") # {}) =>
                        /\ Answered(f, 200, TRUE)
                        /\ <<f.email, stored>> \in outbox

C11_StoredCodeSurvivesMailFailure == [][NoRollback]_vars /\ []StoredCodeIsResent

\* the mail of the request that stored the code was never accepted, and the
\* request after it has read the stored code and is about to send it again
C11_Witness ==
    \E r \in Reqs :
        /\ RetryAfterStore(handler[r])
        /\ handler[r].pc = "resend"
        /\ handler[r].existingCode = mfWrites[1][2]
        /\ outbox = {}

(***************************************************************************)
(* C12.  Two requests in flight together for one email, neither of which   *)
(* read a stored code at its Lookup, can both create a discount and both   *)
(* write the issuance record.  Whenever that happens the two codes are     *)
(* distinct and both registered on the platform, the customer's stored     *)
(* code is the one written second, and each of the two requests whose mail *)
(* is accepted is answered 200.                                            *)
(***************************************************************************)
\* the invocation read no stored code and wrote the issuance record
WroteFresh(f) == ~FoundCode(f) /\ OkCallsOf(f, "metafieldsSet") # {}

BothWrote ==
    /\ WroteFresh(handler[1]) /\ WroteFresh(handler[2])
    /\ handler[1].email = handler[2].email

C12_RaceLeavesTwoCodes ==
    BothWrote =>
        LET f == handler[1]
            g == handler[2]
            n == Len(mfWrites)
        IN  /\ overlap
            /\ f.code # g.code
            /\ {f.code, g.code} \subseteq discounts
            /\ n >= 2
            /\ {mfWrites[n - 1], mfWrites[n]}
                   = {<<f.customerId, f.code>>, <<g.customerId, g.code>>}
            /\ customers[f.email] = mfWrites[n][2]
            /\ \A h \in {f, g} :
                  (Done(h) /\ AllCallsOk(h)) =>
                      (Answered(h, 200, TRUE) /\ <<h.email, h.code>> \in outbox)

\* both requests answered 200, the second invocation's code replaced by the first's
C12_Witness ==
    /\ BothWrote
    /\ Answered(handler[1], 200, TRUE) /\ Answered(handler[2], 200, TRUE)
    /\ handler[1].code # handler[2].code
    /\ mfWrites = << <<handler[2].customerId, handler[2].code>>,
                     <<handler[1].customerId, handler[1].code>> >>
    /\ customers[handler[1].email] = handler[1].code
    /\ {handler[1].code, handler[2].code} \subseteq discounts
    /\ orders[handler[1].email] = {}

(***************************************************************************)
(* C13.  As claimed: for every URL that parses, the signature check passes *)
(* if and only if the signature parameter equals the hex HMAC-SHA256,      *)
(* under the secret, of the path and the query without the signature       *)
(* parameter, the other parameters in their order; a request whose other   *)
(* parameters were changed after signing does not pass.                    *)
(***************************************************************************)
\* the first signature parameter of the URL is the hex digest of the rest
SignatureEqualsHmac(req) ==
    \E i \in 1..Len(req.url) :
        /\ req.url[i][1] = "signature"
        /\ \A k \in 1..(i - 1) : req.url[k][1] # "signature"
        /\ req.url[i][2].rest = ""
        /\ req.url[i][2].bytes
               = <<"hmac", Secret, <<Pathname, WithoutParam(req.url, "signature")>>>>

\* the POST request of the invocation passed line 138
PassedSignature(f) == f.pc # "idle" /\ f.req.method = "POST" /\ f.res.status # 401

C13_TrueIffSignatureEqualsHmac ==
    \A r \in Reqs :
        LET f == handler[r] IN
        (f.pc # "idle" /\ f.req.method = "POST" /\ UrlParses(f.req.url)) =>
            (PassedSignature(f) <=> SignatureEqualsHmac(f.req))

(***************************************************************************)
(* C14.  As claimed: a POST request whose URL does not parse, whose        *)
(* signature parameter is missing or empty, or whose signature is not      *)
(* valid hex or has not the length of the expected digest, is refused by   *)
(* the signature check, which does not throw: the request is answered 401, *)
(* never 500, and makes no remote call.                                    *)
(***************************************************************************)
\* the string has a character that is no hex digit
NotValidHex(s) == s.rest # ""

\* the string does not decode to as many bytes as a digest has
NotDigestLength(s) == s.bytes = NoBytes \/ s.bytes[1] # "hmac"

MalformedSignature(req) ==
    \/ \E i \in 1..Len(req.url) : req.url[i][1] = "host" /\ req.url[i][2] = "["
    \/ \A i \in 1..Len(req.url) : req.url[i][1] # "signature"
    \/ \E i \in 1..Len(req.url) :
          /\ req.url[i][1] = "signature"
          /\ \A k \in 1..(i - 1) : req.url[k][1] # "signature"
          /\ \/ req.url[i][2] = [bytes |-> <<>>, rest |-> ""]
             \/ NotValidHex(req.url[i][2])
             \/ NotDigestLength(req.url[i][2])

C14_MalformedSignature401 ==
    \A r \in Reqs :
        LET f == handler[r] IN
        (f.pc # "idle" /\ f.req.method = "POST" /\ MalformedSignature(f.req)) =>
            (Answered(f, 401, FALSE) /\ f.trace = <<>>)

(***************************************************************************)
(* C15.  The code of a successful createDiscountCode is the code the       *)
(* platform registered and reported.  When it differs from the candidate   *)
(* sent, every write of the issuance record and every mail of the request  *)
(* carry the platform's code and none carries the candidate; the request's *)
(* code is the candidate only when the platform's code is no other string. *)
(***************************************************************************)
C15_PlatformCodeIsFinal ==
    \A r \in Reqs :
        LET f == handler[r] IN
        \A i \in OkCallsOf(f, "discountCreate") :
            LET reported == f.trace[i][2] IN
            /\ reported \in discounts
            /\ f.code = reported
            /\ f.code = f.candidate <=> reported = f.candidate
            /\ reported # f.candidate =>
                  /\ \A k \in CallsOf(f, "metafieldsSet") \cup CallsOf(f, "sendMail") :
                        f.trace[k][2] = reported
                  /\ <<f.customerId, f.candidate>> \notin
                         {mfWrites[k] : k \in 1..Len(mfWrites)}
                  /\ <<f.email, f.candidate>> \notin outbox
                  /\ OkCallsOf(f, "metafieldsSet") # {} =>
                        <<f.customerId, reported>> \in
                            {mfWrites[k] : k \in 1..Len(mfWrites)}
                  /\ OkCallsOf(f, "sendMail") # {} =>
                        <<f.email, reported>> \in outbox

\* a request stored and mailed the platform's spelling of its candidate
C15_Witness ==
    \E r \in Reqs :
        LET f == handler[r] IN
        /\ Answered(f, 200, TRUE)
        /\ f.candidate = makeCode(NumCodes)
        /\ f.code = PlatformSpelling(f.candidate)
        /\ f.code # f.candidate
        /\ <<f.customerId, f.code>> \in {mfWrites[k] : k \in 1..Len(mfWrites)}
        /\ <<f.email, f.code>> \in outbox

(***************************************************************************)
(* C16.  When every remote call eventually returns or fails, every request *)
(* that the handler started is eventually answered, whatever the calls     *)
(* return.  It is answered once: an invocation has no response while it is *)
(* suspended at a call, has one when it is finished, and its frame changes *)
(* after that only by being taken for the next request.                    *)
(***************************************************************************)
OneResponse ==
    \A r \in Reqs :
        LET f == handler[r] IN
        /\ ~Done(f) => f.res = NoRes
        /\ Done(f) => f.res.status \in {200, 400, 401, 405, 409, 500}

ResponseIsFinal ==
    \A r \in Reqs :
        (Done(handler[r]) /\ handler'[r] # handler[r]) =>
            (budget' = budget - 1 /\ handler'[r].trace = <<>>)

C16_EveryRequestTerminates ==
    /\ []OneResponse
    /\ [][ResponseIsFinal]_vars
    /\ \A r \in Reqs : InFlight(handler[r]) ~> Done(handler[r])

\* a request answered after ten remote calls, four of them collisions
C16_Witness ==
    \E r \in Reqs :
        LET f == handler[r] IN
        /\ Answered(f, 200, TRUE)
        /\ OkCallsOf(f, "customerCreate") # {}
        /\ Cardinality(CallsOf(f, "discountCreate")) = MaxTries
        /\ Len(f.trace) = MaxTries + 5

(***************************************************************************)
(* C17.  The remote calls of one request are made in the order customer    *)
(* lookup, customer creation, order lookup, discount creation attempts,    *)
(* issuance-record write, mail; a call is made only when the call before   *)
(* it succeeded (for a discount creation attempt after the first: when the *)
(* attempt before it was refused as taken).  The issuance record is        *)
(* written only right after a successful discount creation, with the code  *)
(* of that creation; a mail carrying a code that was not read at Lookup is *)
(* sent only right after the successful write of that code.                *)
(***************************************************************************)
Stage(op) ==
    CASE op = "customers" -> 1
      [] op = "customerCreate" -> 2
      [] op = "orders" -> 3
      [] op = "discountCreate" -> 4
      [] op = "metafieldsSet" -> 5
      [] op = "sendMail" -> 6

C17_CallsInOrder ==
    \A r \in Reqs :
        LET f == handler[r]
            t == f.trace
            n == Len(t)
        IN  /\ n > 0 => t[1][1] = "customers"
            /\ \A i \in 1..(n - 1) :
                  /\ Stage(t[i][1]) <= Stage(t[i + 1][1])
                  /\ Stage(t[i][1]) = Stage(t[i + 1][1]) => t[i][1] = "discountCreate"
                  /\ t[i][3] = "ok" \/ (t[i][3] = "taken" /\ t[i + 1][1] = "discountCreate")
            /\ \A i \in CallsOf(f, "customerCreate") : i = 2
            /\ \A i \in CallsOf(f, "orders") : i - 1 \in {1, 2}
            /\ \A i \in CallsOf(f, "metafieldsSet") :
                  /\ i - 1 \in OkCallsOf(f, "discountCreate")
                  /\ t[i][2] = t[i - 1][2]
                  /\ t[i][2] \in discounts
            /\ \A i \in CallsOf(f, "sendMail") :
                  \/ i = 2 /\ FoundCode(f) /\ t[i][2] = f.existingCode
                  \/ /\ ~FoundCode(f)
                     /\ i - 1 \in OkCallsOf(f, "metafieldsSet")
                     /\ t[i][2] = t[i - 1][2]
                     /\ <<f.customerId, t[i][2]>> \in
                            {mfWrites[k] : k \in 1..Len(mfWrites)}

\* a request that made every kind of call, one attempt refused as taken
C17_Witness ==
    \E r \in Reqs :
        handler[r].trace =
            << <<"customers", <<"a", "@", "b", ".", "c">>, "ok">>,
               <<"customerCreate", <<"a", "@", "b", ".", "c">>, "ok">>,
               <<"orders", <<"a", "@", "b", ".", "c">>, "ok">>,
               <<"discountCreate", NoCode, "taken">>,
               <<"discountCreate", makeCode(2), "ok">>,
               <<"metafieldsSet", makeCode(2), "ok">>,
               <<"sendMail", makeCode(2), "ok">> >>

(***************************************************************************)
(* C18.  As claimed: a remote call that fails, other than a discount       *)
(* creation refused as taken, is the last call of its request, which is    *)
(* answered 500 {ok:false}.  When the write of the issuance record fails   *)
(* after a discount was created, no mail is sent, the discount stays       *)
(* registered, and the customer has no stored code when the request ends.  *)
(***************************************************************************)
\* the invocation ended on a failed write of the issuance record
WriteFailed(f) ==
    /\ Len(f.trace) > 0
    /\ f.trace[Len(f.trace)] = <<"metafieldsSet", f.code, "error">>

FailureIsFatal ==
    \A r \in Reqs :
        LET f == handler[r]
            n == Len(f.trace)
        IN  /\ \A i \in 1..n :
                  f.trace[i][3] = "error" =>
                      /\ i = n
                      /\ Answered(f, 500, FALSE)
                      /\ f.res.message = "Server error. Please try again later."
            /\ WriteFailed(f) =>
                  /\ n - 1 \in OkCallsOf(f, "discountCreate")
                  /\ f.trace[n - 1][2] = f.code
                  /\ f.code \in discounts
                  /\ CallsOf(f, "sendMail") = {}
                  /\ <<f.email, f.code>> \notin outbox
                  /\ <<f.customerId, f.code>> \notin
                         {mfWrites[k] : k \in 1..Len(mfWrites)}

\* the step of r in which its write of the issuance record fails
PersistFails(r) ==
    /\ handler[r].pc = "persist"
    /\ handler'[r].pc = "done"

FailedWriteLeavesNoCode ==
    \A r \in Reqs :
        PersistFails(r) =>
            /\ customers' = customers /\ discounts' = discounts
            /\ customers'[handler[r].email] = NoCode

C18_FailureLeavesNoStoredCode ==
    []FailureIsFatal /\ [][FailedWriteLeavesNoCode]_vars

(***************************************************************************)
(* C18, amended.  The same, except for the stored code: the failed write   *)
(* changes no stored code, and when the request ends the customer has no   *)
(* stored code unless another request, in flight together with this one,   *)
(* has written its own code for the same customer in the meantime.         *)
(***************************************************************************)
FailedWriteStoresNothing ==
    \A r \in Reqs :
        PersistFails(r) =>
            LET stored == customers'[handler[r].email] IN
            /\ customers' = customers /\ discounts' = discounts
            /\ ~overlap => stored = NoCode
            /\ stored # NoCode =>
                  /\ stored # handler[r].code
                  /\ <<handler[r].customerId, stored>> \in
                         {mfWrites[k] : k \in 1..Len(mfWrites)}

C18_FailureStoresNothing ==
    []FailureIsFatal /\ [][FailedWriteStoresNothing]_vars

\* a request that ended on a failed write: its discount is registered, no
\* mail was sent, the customer it created has no stored code
C18_Witness ==
    \E r \in Reqs :
        LET f == handler[r] IN
        /\ WriteFailed(f)
        /\ Answered(f, 500, FALSE)
        /\ OkCallsOf(f, "customerCreate") # {}
        /\ f.code \in discounts
        /\ customers[f.email] = NoCode
        /\ outbox = {}

(***************************************************************************)
(* C19.  Every discount the workflow creates is created by a request that  *)
(* is a POST, passed the signature check, carries a well-formed email,     *)
(* read no stored code at its Lookup and was shown no order by its order   *)
(* lookup.  Every mail carries either the stored code the request read at  *)
(* its Lookup, or a code the same request created and then stored.         *)
(***************************************************************************)
\* the request of the invocation went through every gate before the mint
Gated(f) ==
    /\ f.req.method = "POST"
    /\ verifyProxySignature(f.req)
    /\ ~Malformed(f.req.body)
    /\ f.email = NormalizeEmail(f.req.body)
    /\ OkCallsOf(f, "customers") # {}
    /\ ~FoundCode(f)
    /\ OkCallsOf(f, "orders") # {}
    /\ orders[f.email] \cap {"unfulfilled", "fulfilled"} = {}

\* the invocation created the code and then stored it, before its call k
CreatedAndStored(f, c, k) ==
    \E i \in OkCallsOf(f, "discountCreate") :
        \E j \in OkCallsOf(f, "metafieldsSet") :
            /\ i < j /\ j < k
            /\ f.trace[i][2] = c /\ f.trace[j][2] = c

GatedCalls ==
    \A r \in Reqs :
        LET f == handler[r] IN
        /\ (CallsOf(f, "discountCreate") # {} \/ f.pc = "mint") => Gated(f)
        /\ \A k \in CallsOf(f, "sendMail") :
              \/ FoundCode(f) /\ f.trace[k][2] = f.existingCode
              \/ CreatedAndStored(f, f.trace[k][2], k)

\* the last call of the invocation, after the step
LastCall(r) == handler'[r].trace[Len(handler'[r].trace)]

GatedChanges ==
    /\ discounts' # discounts =>
          \E r \in Reqs :
              /\ handler[r].pc = "mint" /\ Gated(handler[r])
              /\ LastCall(r)[1] = "discountCreate" /\ LastCall(r)[3] = "ok"
              /\ discounts' = discounts \cup {LastCall(r)[2]}
    /\ outbox' # outbox =>
          \E r \in Reqs :
              /\ handler[r].pc \in {"resend", "notify"}
              /\ LastCall(r)[1] = "sendMail" /\ LastCall(r)[3] = "ok"
              /\ outbox' = outbox \cup {<<handler[r].email, LastCall(r)[2]>>}

C19_IssuanceIsGated == []GatedCalls /\ [][GatedChanges]_vars

\* one request created, stored and mailed a code; another read it and mailed it
C19_Witness ==
    /\ Answered(handler[1], 200, TRUE) /\ Answered(handler[2], 200, TRUE)
    /\ handler[1].req.body = <<" ", "A", "@", "b", ".", "c">>
    /\ OkCallsOf(handler[1], "discountCreate") # {}
    /\ handler[1].code \in discounts \ PreExisting
    /\ handler[2].existingCode = handler[1].code
    /\ outbox = {<<handler[1].email, handler[1].code>>}
====
